---- MODULE Spec2Model ----
(***************************************************************************)
(* DictValidator of src/validators/dict.rs: a mapping validator that       *)
(* delegates every key and every value to optional child validators,       *)
(* enforces size bounds and aggregates the children's line errors.         *)
(*                                                                         *)
(* Objects (keys, values, validated outputs) are integers: the positive    *)
(* ones are hashable objects, 0 stands for an unhashable object (a list).  *)
(* Option<T> is a sequence of length 0 (None) or 1 (Some).                 *)
(* The input_value field of a line error is left out: no operation of      *)
(* this file reads it.                                                     *)
(***************************************************************************)
EXTENDS Integers, Sequences, FiniteSets, TLC

VARIABLES self, built, call

vars == <<self, built, call>>

(* ------------------------------ bounds --------------------------------- *)

\* longest canonical mapping (a dict) given as input
MaxLen == 4
\* longest input that only lax extraction accepts (items view, plain object)
MaxLaxLen == 2
\* longest input given to a validator that is still receiving set_ref calls
MaxRefLen == 1

(* --------------------------- Option encoding --------------------------- *)

None == <<>>
Some(x) == <<x>>
IsSome(o) == Len(o) = 1
Unwrap(o) == o[1]

(* ------------------------------ objects -------------------------------- *)

\* the objects that occur as keys of the inputs
Keys == {1, 2, 3, 4}
\* the objects that occur as values of the inputs
Values == {1, 4}

IsHashable(o) == o > 0

\* Input::to_py: the host object of an input item (a new reference to it)
ToPy(item) == item

\* ToLocItem::to_loc of an integer key (LocItem::I) and of a string
\* (LocItem::S): the two never compare equal
ToLoc(key) == [tag |-> "I", s |-> ToString(key)]
StrLoc(str) == [tag |-> "S", s |-> str]

(* ------------------------------ errors --------------------------------- *)

\* ValLineError: kind, context and location (outermost item first)
LineError(kind, context, loc) == [kind |-> kind, context |-> context, loc |-> loc]

\* ValLineError::with_prefix_location
with_prefix_location(err, loc) == [err EXCEPT !.loc = loc \o err.loc]

\* ValResult<PyObject>
Ok(value) == [tag |-> "Ok", value |-> value, errors |-> <<>>]
LineErrors(errors) == [tag |-> "LineErrors", value |-> <<>>, errors |-> errors]
InternalErr == [tag |-> "InternalErr", value |-> <<>>, errors |-> <<>>]

\* err_val_error!(kind = .., context = ..): a failure of one record at the
\* root location
err_val_error(kind, context) == LineErrors(<<LineError(kind, context, <<>>)>>)

(* --------------------------- child validators -------------------------- *)

\* The schemas the children are built from.  A child is a Validator trait
\* object, opaque to this file; the three kinds are stand-ins that between
\* them produce every shape of result the trait allows.
ChildKinds == {"leaf", "nested", "raising"}

\* a child as built: its kind and the reference bindings it has received
Child(kind) == [kind |-> kind, refs |-> {}]

\* Validator::validate of a child on one item
\*   leaf    : accepts items up to 3, one record at its root otherwise
\*   nested  : coerces 2 to 1, fails on 3 with no record at all, fails on 4
\*             with two records at locations of its own
\*   raising : turns 2 into an unhashable object, one record on 3, an
\*             internal error on 4
ChildValidate(child, item) ==
    CASE child.kind = "leaf" ->
           IF item <= 3 THEN Ok(ToPy(item))
           ELSE LineErrors(<<LineError("less_than_equal", <<<<"le", 3>>>>, <<>>)>>)
      [] child.kind = "nested" ->
           IF item <= 2 THEN Ok(1)
           ELSE IF item = 3 THEN LineErrors(<<>>)
           ELSE LineErrors(<<LineError("missing", <<>>, <<StrLoc("x")>>),
                             LineError("extra_forbidden", <<>>, <<StrLoc("y"), StrLoc("z")>>)>>)
      [] child.kind = "raising" ->
           IF item = 1 THEN Ok(1)
           ELSE IF item = 2 THEN Ok(0)
           ELSE IF item = 3 THEN LineErrors(<<LineError("value_error", <<>>, <<>>)>>)
           ELSE InternalErr

(* -------------------------------- PyDict ------------------------------- *)

\* A PyDict is the sequence of its <<key, value>> entries in insertion
\* order, keys pairwise different.
RECURSIVE IndexOfKey(_, _, _)
IndexOfKey(dict, key, i) ==
    IF i > Len(dict) THEN 0
    ELSE IF dict[i][1] = key THEN i
    ELSE IndexOfKey(dict, key, i + 1)

\* PyDict::set_item: fails on an unhashable key; a key already present keeps
\* its place and takes the new value; a new key goes last
set_item(dict, key, value) ==
    IF ~IsHashable(key) THEN [ok |-> FALSE, dict |-> dict]
    ELSE LET i == IndexOfKey(dict, key, 1)
         IN  [ok |-> TRUE,
              dict |-> IF i = 0 THEN Append(dict, <<key, value>>)
                       ELSE [dict EXCEPT ![i] = <<key, value>>]]

(* ------------------------------- inputs -------------------------------- *)

\* sequences of <<key, value>> pairs of at most n entries
PairSeqs(n) == UNION {[1..m -> Keys \X Values] : m \in 0..n}

DistinctKeys(items) ==
    \A i, j \in 1..Len(items) : items[i][1] = items[j][1] => i = j

\* An input is a host value: a dict, the items of a mapping that is no dict,
\* a plain object carrying attributes, or a scalar.
InputsUpTo(n, m) ==
    {[shape |-> "dict", items |-> s] : s \in {t \in PairSeqs(n) : DistinctKeys(t)}}
    \cup {[shape |-> "items", items |-> s] : s \in PairSeqs(m)}
    \cup {[shape |-> "object", items |-> s] : s \in {t \in PairSeqs(m) : DistinctKeys(t)}}
    \cup {[shape |-> "scalar", items |-> <<>>]}

Inputs == InputsUpTo(MaxLen, MaxLaxLen)
RefInputs == InputsUpTo(MaxRefLen, MaxRefLen)

\* the dict a sequence of pairs converts to (PyDict::from_sequence)
RECURSIVE DictFromPairs(_, _, _)
DictFromPairs(items, i, dict) ==
    IF i > Len(items) THEN dict
    ELSE DictFromPairs(items, i + 1, set_item(dict, items[i][1], items[i][2]).dict)

\* Input::strict_dict: only a dict is a mapping
strict_dict(input) ==
    IF input.shape = "dict" THEN Ok(input.items)
    ELSE err_val_error("DictType", <<>>)

\* Input::lax_dict: also the items of a mapping and, with try_instance, the
\* attributes of a plain object
lax_dict(input, try_instance) ==
    CASE input.shape = "dict" -> Ok(input.items)
      [] input.shape = "items" -> Ok(DictFromPairs(input.items, 1, <<>>))
      [] input.shape = "object" ->
           IF try_instance THEN Ok(input.items) ELSE err_val_error("DictType", <<>>)
      [] OTHER -> err_val_error("DictType", <<>>)

\* DictInput::input_len
input_len(dict) == Len(dict)

(* --------------------------- DictValidator ----------------------------- *)

\* entry_loc without the key marker
entry_loc_no_marker(key, key_loc) == <<ToLoc(key)>>

\* the location prefix of an entry's errors (the if key_loc of
\* apply_validator)
entry_loc(key, key_loc) ==
    IF key_loc THEN <<ToLoc(key), StrLoc("[key]")>> ELSE <<ToLoc(key)>>

\* push_errors keeping the first line error of the child only
push_errors_first(errors, line_errors, loc) ==
    IF line_errors = <<>> THEN errors
    ELSE Append(errors, with_prefix_location(line_errors[1], loc))

\* the for loop of apply_validator: every line error of the child is pushed,
\* in the child's order, under the prefix
push_errors(errors, line_errors, loc) ==
    errors \o [n \in 1..Len(line_errors) |-> with_prefix_location(line_errors[n], loc)]

\* hand_up taking the error for a failed entry
hand_up_swallowed(errors) == [tag |-> "Ok", value |-> None, errors |-> errors]

\* apply_validator, arm Err(err) => Err(err): any other error is handed up
hand_up(errors) == [tag |-> "Err", value |-> None, errors |-> errors]

\* pass_through yielding nothing
pass_through_dropped(input) == None

\* apply_validator, arm None => Ok(Some(input.to_py(py)))
pass_through(input) == Some(ToPy(input))

\* apply_validator, the match on the child's result r
on_child_result(r, errors, key, key_loc) ==
    CASE r.tag = "Ok" ->
           [tag |-> "Ok", value |-> Some(r.value), errors |-> errors]
      [] r.tag = "LineErrors" ->
           [tag |-> "Ok", value |-> None,
            errors |-> push_errors(errors, r.errors, entry_loc(key, key_loc))]
      [] OTHER -> hand_up(errors)

\* apply_validator: an absent validator passes the item through; a present one
\* is invoked, its line errors are pushed onto errors under the entry's
\* location prefix, any other error is handed up.
\* Result: tag Ok with value Option<PyObject>, or tag Err; errors is the
\* list as the call leaves it.
apply_validator(validator, errors, input, key, key_loc) ==
    IF IsSome(validator)
    THEN on_child_result(ChildValidate(Unwrap(validator), input), errors, key, key_loc)
    ELSE [tag |-> "Ok", value |-> pass_through(input), errors |-> errors]

\* the child invocations apply_validator makes
Invoked(validator, which, item) ==
    IF IsSome(validator) THEN <<[which |-> which, item |-> item]>> ELSE <<>>

\* the for loop of _validation_logic from entry i on; st holds output, errors
\* and the log of child invocations made so far
RECURSIVE validate_entries(_, _, _, _)

\* the loop body after output.set_item
after_set_item(this, dict, i, st, set) ==
    IF ~set.ok THEN [tag |-> "Err", st |-> st]
    ELSE validate_entries(this, dict, i + 1, [st EXCEPT !.output = set.dict])

\* the loop body after the value's apply_validator returned rv
after_value(this, dict, i, st, rk, rv) ==
    IF rv.tag = "Err" THEN [tag |-> "Err", st |-> st]
    ELSE after_set_item(this, dict, i, [st EXCEPT !.errors = rv.errors],
            IF IsSome(rk.value) /\ IsSome(rv.value)
            THEN set_item(st.output, Unwrap(rk.value), Unwrap(rv.value))
            ELSE [ok |-> TRUE, dict |-> st.output])

\* the loop body after the key's apply_validator returned rk
after_key(this, dict, i, st, rk) ==
    IF rk.tag = "Err" THEN [tag |-> "Err", st |-> st]
    ELSE after_value(this, dict, i,
            [st EXCEPT !.calls = @ \o Invoked(this.value_validator, "value", dict[i][2])],
            rk,
            apply_validator(this.value_validator, rk.errors, dict[i][2], dict[i][1], FALSE))

validate_entries(this, dict, i, st) ==
    IF i > Len(dict) THEN [tag |-> "Done", st |-> st]
    ELSE after_key(this, dict, i,
            [st EXCEPT !.calls = @ \o Invoked(this.key_validator, "key", dict[i][1])],
            apply_validator(this.key_validator, st.errors, dict[i][1], dict[i][1], TRUE))

\* too_short with the bound exclusive
too_short_exclusive(this, dict) ==
    IsSome(this.min_items) /\ input_len(dict) <= Unwrap(this.min_items)

\* the min_items check of _validation_logic
too_short(this, dict) ==
    IsSome(this.min_items) /\ input_len(dict) < Unwrap(this.min_items)

\* the max_items check of _validation_logic
too_long(this, dict) ==
    IsSome(this.max_items) /\ input_len(dict) > Unwrap(this.max_items)

\* finish returning the output whatever was collected
finish_always_ok(errors, output) == Ok(output)

\* the end of _validation_logic: success exactly on an empty error list
finish(errors, output) ==
    IF errors = <<>> THEN Ok(output) ELSE LineErrors(errors)

\* the end of _validation_logic, r what the loop gave
after_entries(r) ==
    [result |-> IF r.tag = "Err" THEN InternalErr ELSE finish(r.st.errors, r.st.output),
     calls |-> r.st.calls, output |-> r.st.output]

\* DictValidator::_validation_logic.  result is the ValResult; calls (the
\* child invocations made) and output (the dict as assembled when the call
\* ends) are kept for the properties.
_validation_logic(this, dict) ==
    IF too_short(this, dict)
    THEN [result |-> err_val_error("DictTooShort",
                        <<<<"min_length", Unwrap(this.min_items)>>>>),
          calls |-> <<>>, output |-> <<>>]
    ELSE IF too_long(this, dict)
    THEN [result |-> err_val_error("DictTooLong",
                        <<<<"max_length", Unwrap(this.max_items)>>>>),
          calls |-> <<>>, output |-> <<>>]
    ELSE after_entries(validate_entries(this, dict, 1,
                          [output |-> <<>>, errors |-> <<>>, calls |-> <<>>]))

\* the result of a call with the view it worked on
with_view(r, view) ==
    [result |-> r.result, calls |-> r.calls, output |-> r.output, view |-> view]

\* the `?` on the extraction, then _validation_logic; view is the mapping
\* view the extraction gave, if it gave one
AfterExtraction(this, extracted) ==
    IF extracted.tag = "Ok"
    THEN with_view(_validation_logic(this, extracted.value), Some(extracted.value))
    ELSE [result |-> extracted, calls |-> <<>>, output |-> <<>>, view |-> None]

\* DictValidator::validate
validate(this, input) ==
    AfterExtraction(this,
        IF this.strict THEN strict_dict(input)
        ELSE lax_dict(input, this.try_instance_as_dict))

\* validate_strict extracting laxly
validate_strict_lax(this, input) ==
    AfterExtraction(this, lax_dict(input, this.try_instance_as_dict))

\* DictValidator::validate_strict
validate_strict(this, input) == AfterExtraction(this, strict_dict(input))

\* validate_strict leaving the validator strict
after_validate_strict_sticky(this) == [this EXCEPT !.strict = TRUE]

\* what a call through &self leaves of the validator: validate and
\* validate_strict borrow it shared and write no field
after_validate(this) == this

after_validate_strict(this) == this

\* set_ref of a child: an opaque call that records the binding when it
\* succeeds
child_set_ref(child, name, target, ok) ==
    IF ok THEN [child EXCEPT !.refs = @ \cup {<<name, target>>}] ELSE child

\* set_ref forwarding to the key validator only
set_ref_key_only(this, name, target, key_ok, value_ok) ==
    IF IsSome(this.key_validator)
    THEN [this |-> [this EXCEPT !.key_validator =
                      Some(child_set_ref(Unwrap(@), name, target, key_ok))],
          ok |-> key_ok,
          forwarded |-> <<[which |-> "key", name |-> name, target |-> target,
                           ok |-> key_ok]>>]
    ELSE [this |-> this, ok |-> TRUE, forwarded |-> <<>>]

\* DictValidator::set_ref; key_ok and value_ok are the results the children
\* give if they are called.  Result: the validator as left, the PyResult
\* and the calls forwarded, each with the result the child gave.
set_ref(this, name, target, key_ok, value_ok) ==
    LET has_key == IsSome(this.key_validator)
        has_value == IsSome(this.value_validator)
        fwd_key == IF has_key
                   THEN <<[which |-> "key", name |-> name, target |-> target,
                           ok |-> key_ok]>>
                   ELSE <<>>
        this_k == IF has_key
                  THEN [this EXCEPT !.key_validator =
                          Some(child_set_ref(Unwrap(@), name, target, key_ok))]
                  ELSE this
    IN  IF has_key /\ ~key_ok
        THEN [this |-> this_k, ok |-> FALSE, forwarded |-> fwd_key]
        ELSE IF has_value
        THEN [this |-> [this_k EXCEPT !.value_validator =
                          Some(child_set_ref(Unwrap(@), name, target, value_ok))],
              ok |-> value_ok,
              forwarded |-> Append(fwd_key,
                              [which |-> "value", name |-> name, target |-> target,
                               ok |-> value_ok])]
        ELSE [this |-> this_k, ok |-> TRUE, forwarded |-> fwd_key]

(* ------------------------------ schemas -------------------------------- *)

\* the values min_items and max_items are given in the schemas: a minimum
\* above the maximum makes some lengths break both
MinChoices == {None, Some(3)}
MaxChoices == {None, Some(1)}
OptionalChildren == {None} \cup {Some(Child(k)) : k \in ChildKinds}

\* the names and targets set_ref is called with
RefNames == {"r1", "r2"}
RefTargets == {"t"}

\* DictValidator::build: the validator of a schema
build(strict, keys, values, min_items, max_items, try_instance_as_dict) ==
    [strict |-> strict,
     key_validator |-> keys,
     value_validator |-> values,
     min_items |-> min_items,
     max_items |-> max_items,
     try_instance_as_dict |-> try_instance_as_dict]

(* --------------------------- state machine ----------------------------- *)

NoInput == [shape |-> "scalar", items |-> <<>>]

\* no call is in progress
Idle == [op |-> "idle", input |-> NoInput, name |-> "", target |-> "",
         result |-> Ok(<<>>), calls |-> <<>>, output |-> <<>>, view |-> None,
         forwarded |-> <<>>]

Init ==
    /\ \E strict \in BOOLEAN, try \in BOOLEAN,
          keys \in OptionalChildren, values \in OptionalChildren,
          min_items \in MinChoices, max_items \in MaxChoices :
          self = build(strict, keys, values, min_items, max_items, try)
    /\ built = self
    /\ call = Idle

\* a caller holding the interpreter lock runs validate to completion
Validate(inputs) ==
    /\ call.op = "idle"
    /\ \E input \in inputs :
          LET r == validate(self, input)
          IN  call' = [Idle EXCEPT !.op = "validate", !.input = input,
                                   !.result = r.result, !.calls = r.calls,
                                   !.output = r.output, !.view = r.view]
    /\ self' = after_validate(self)
    /\ UNCHANGED built

\* a caller holding the interpreter lock runs validate_strict to completion
ValidateStrict(inputs) ==
    /\ call.op = "idle"
    /\ \E input \in inputs :
          LET r == validate_strict(self, input)
          IN  call' = [Idle EXCEPT !.op = "validate_strict", !.input = input,
                                   !.result = r.result, !.calls = r.calls,
                                   !.output = r.output, !.view = r.view]
    /\ self' = after_validate_strict(self)
    /\ UNCHANGED built

\* the schema builder binds a reference; built follows the validator
SetRef ==
    /\ call.op = "idle"
    /\ \E name \in RefNames, target \in RefTargets, key_ok \in BOOLEAN, value_ok \in BOOLEAN :
          LET r == set_ref(self, name, target, key_ok, value_ok)
          IN  /\ self' = r.this
              /\ built' = r.this
              /\ call' = [Idle EXCEPT !.op = "set_ref", !.name = name, !.target = target,
                                      !.result = IF r.ok THEN Ok(<<>>) ELSE InternalErr,
                                      !.forwarded = r.forwarded]

\* the caller takes the result
Return ==
    /\ call.op # "idle"
    /\ call' = Idle
    /\ UNCHANGED <<self, built>>

\* a validator in use
Next == Validate(Inputs) \/ ValidateStrict(Inputs) \/ Return

Spec == Init /\ [][Next]_vars

\* a validator whose references are bound between uses
NextRefs == SetRef \/ Validate(RefInputs) \/ ValidateStrict(RefInputs) \/ Return

SpecRefs == Init /\ [][NextRefs]_vars

(* ===================== properties of the validator ===================== *)

ValidateOps == {"validate", "validate_strict"}

\* a validate or validate_strict call has ended and its result is at hand
Finished == call.op \in ValidateOps

\* the call extracted a mapping view
HasView == Finished /\ IsSome(call.view)
View == Unwrap(call.view)

HasKeyValidator == IsSome(self.key_validator)
HasValueValidator == IsSome(self.value_validator)

\* what the key and the value of entry i of the view validate to
KeyOutcome(i) ==
    IF HasKeyValidator THEN ChildValidate(Unwrap(self.key_validator), View[i][1])
    ELSE Ok(View[i][1])
ValueOutcome(i) ==
    IF HasValueValidator THEN ChildValidate(Unwrap(self.value_validator), View[i][2])
    ELSE Ok(View[i][2])

BelowMin == IsSome(self.min_items) /\ Len(View) < Unwrap(self.min_items)
AboveMax == IsSome(self.max_items) /\ Len(View) > Unwrap(self.max_items)
SizeOk == ~BelowMin /\ ~AboveMax
NoInternal == call.result.tag # "InternalErr"

\* the records the children return, entry by entry, key before value, each
\* with the entry it comes from
RecordsOf(outcome, i, which) ==
    IF outcome.tag = "LineErrors"
    THEN [n \in 1..Len(outcome.errors) |->
            [entry |-> i, which |-> which, rec |-> outcome.errors[n]]]
    ELSE <<>>
RECURSIVE SourcesFrom(_)
SourcesFrom(i) ==
    IF i > Len(View) THEN <<>>
    ELSE RecordsOf(KeyOutcome(i), i, "key") \o RecordsOf(ValueOutcome(i), i, "value")
         \o SourcesFrom(i + 1)

\* C1: a view shorter than min_items fails with the single record
\* DictTooShort {min_length}; otherwise a view longer than max_items fails
\* with the single record DictTooLong {max_length}; in both cases no child
\* is invoked; a length within the inclusive bounds gives no size error.
C1_SizeBounds ==
    HasView =>
      /\ BelowMin =>
           /\ call.result = LineErrors(<<LineError("DictTooShort",
                               <<<<"min_length", Unwrap(self.min_items)>>>>, <<>>)>>)
           /\ call.calls = <<>>
      /\ (~BelowMin /\ AboveMax) =>
           /\ call.result = LineErrors(<<LineError("DictTooLong",
                               <<<<"max_length", Unwrap(self.max_items)>>>>, <<>>)>>)
           /\ call.calls = <<>>
      /\ SizeOk =>
           \A p \in 1..Len(call.result.errors) :
              call.result.errors[p].kind \notin {"DictTooShort", "DictTooLong"}

\* a view of two entries under min_items 3 and max_items 1, children present
C1_Witness ==
    /\ HasView /\ BelowMin /\ AboveMax
    /\ HasKeyValidator /\ HasValueValidator
    /\ call.result.tag = "LineErrors"
    /\ call.result.errors[1].kind = "DictTooShort"

\* C2: when the size check passes and nothing raises an internal error,
\* the failure holds one record for every record of every failing key and
\* value validation, in entry order, key before value, child order within;
\* any such record makes the call a failure.
C2_AllErrorsCollected ==
    (HasView /\ SizeOk /\ NoInternal) =>
      LET src == SourcesFrom(1)
      IN  /\ src # <<>> => call.result.tag = "LineErrors"
          /\ call.result.tag = "LineErrors" =>
               /\ Len(call.result.errors) = Len(src)
               /\ \A p \in 1..Len(src) :
                    /\ call.result.errors[p].kind = src[p].rec.kind
                    /\ call.result.errors[p].context = src[p].rec.context

\* an entry whose key and value both fail, the value with two records, and a
\* later entry that fails too
C2_Witness ==
    /\ HasView /\ SizeOk /\ NoInternal
    /\ \E i, j \in 1..Len(View) :
          /\ i < j
          /\ KeyOutcome(i).tag = "LineErrors" /\ Len(KeyOutcome(i).errors) = 1
          /\ ValueOutcome(i).tag = "LineErrors" /\ Len(ValueOutcome(i).errors) = 2
          /\ ValueOutcome(j).tag = "LineErrors"
    /\ Len(call.result.errors) >= 5

\* the prefix the errors of a source belong under
PrefixOf(src) ==
    IF src.which = "key" THEN <<ToLoc(View[src.entry][1]), StrLoc("[key]")>>
    ELSE <<ToLoc(View[src.entry][1])>>

\* exactly the key of entry 2 and the value of entry 4 fail, one record each
\* at the child's root
SecondKeyFourthValue(src) ==
    /\ Len(View) >= 4 /\ Len(src) = 2
    /\ src[1].entry = 2 /\ src[1].which = "key" /\ src[1].rec.loc = <<>>
    /\ src[2].entry = 4 /\ src[2].which = "value" /\ src[2].rec.loc = <<>>

\* C3: every record of a key validation is emitted at [key, "[key]"] followed
\* by the child's location, every record of a value validation at [key]
\* followed by the child's location, kind and context unchanged; so when
\* only the 2nd key and the 4th value fail there are exactly two records, at
\* [key2, "[key]"] and at [key4].
C3_LocationPrefix ==
    (HasView /\ call.result.tag = "LineErrors" /\ SizeOk) =>
      LET src == SourcesFrom(1)
          errors == call.result.errors
      IN  /\ Len(errors) = Len(src)
          /\ \A p \in 1..Len(src) :
                errors[p] = LineError(src[p].rec.kind, src[p].rec.context,
                                      PrefixOf(src[p]) \o src[p].rec.loc)
          /\ SecondKeyFourthValue(src) =>
                /\ Len(errors) = 2
                /\ errors[1].loc = <<ToLoc(View[2][1]), StrLoc("[key]")>>
                /\ errors[2].loc = <<ToLoc(View[4][1])>>

\* the failure of a call where only the 2nd key and the 4th value fail
C3_Witness ==
    /\ HasView /\ SizeOk /\ call.result.tag = "LineErrors"
    /\ SecondKeyFourthValue(SourcesFrom(1))

\* C4: with no key validator and no value validator and the size bounds
\* met, the call succeeds with the entries of the extracted view: the same
\* keys and values in the same order.
C4_NoValidatorsIdentity ==
    (HasView /\ ~HasKeyValidator /\ ~HasValueValidator /\ SizeOk) =>
      call.result = Ok(View)

\* lax validate of the items of a mapping, two entries, no child
C4_Witness ==
    /\ HasView /\ ~HasKeyValidator /\ ~HasValueValidator /\ SizeOk
    /\ call.op = "validate" /\ call.input.shape = "items"
    /\ Len(View) = 2 /\ View[1][2] # View[2][2]
    /\ call.result.tag = "Ok"

\* the validated <<key, value>> of the entries whose key and value both
\* validate, in entry order
RECURSIVE GoodFrom(_)
GoodFrom(i) ==
    IF i > Len(View) THEN <<>>
    ELSE (IF KeyOutcome(i).tag = "Ok" /\ ValueOutcome(i).tag = "Ok"
          THEN <<<<KeyOutcome(i).value, ValueOutcome(i).value>>>> ELSE <<>>)
         \o GoodFrom(i + 1)

\* success exactly on an empty aggregate list, and the success value is the
\* assembled output
SuccessIffNoErrors ==
    /\ call.result.tag = "Ok" <=> SourcesFrom(1) = <<>>
    /\ call.result.tag = "LineErrors" => call.result.errors # <<>>
    /\ call.result.tag = "Ok" => call.result.value = call.output

\* C5 as stated: success exactly when no error was collected, and the
\* assembled output holds one entry for each entry whose key and value both
\* validated, in entry order.
C5_OneEntryPerGoodEntry ==
    (HasView /\ SizeOk /\ NoInternal) =>
      /\ SuccessIffNoErrors
      /\ call.output = GoodFrom(1)

\* C5 amended: success exactly when no error was collected; the assembled
\* output holds the validated keys of the entries whose key and value both
\* validated, each once, in the order of their first occurrence, each with
\* the validated value of the last such entry having that validated key.
C5_OutputOfGoodEntries ==
    (HasView /\ SizeOk /\ NoInternal) =>
      LET good == GoodFrom(1)
          out == call.output
          First(k) == CHOOSE j \in 1..Len(good) :
                         good[j][1] = k /\ \A m \in 1..(j - 1) : good[m][1] # k
          Last(k) == CHOOSE j \in 1..Len(good) :
                         good[j][1] = k /\ \A m \in (j + 1)..Len(good) : good[m][1] # k
      IN  /\ SuccessIffNoErrors
          /\ DistinctKeys(out)
          /\ {out[i][1] : i \in 1..Len(out)} = {good[j][1] : j \in 1..Len(good)}
          /\ \A i \in 1..Len(out) : out[i][2] = good[Last(out[i][1])][2]
          /\ \A i, j \in 1..Len(out) : i < j => First(out[i][1]) < First(out[j][1])

\* a success where two entries validated to the same key with different
\* values
C5_Witness ==
    /\ HasView /\ SizeOk /\ call.result.tag = "Ok"
    /\ Len(call.output) < Len(GoodFrom(1))
    /\ \E i, j \in 1..Len(GoodFrom(1)) :
          /\ i < j
          /\ GoodFrom(1)[i][1] = GoodFrom(1)[j][1]
          /\ GoodFrom(1)[i][2] # GoodFrom(1)[j][2]

\* the invocations a fully processed entry takes
CallsOfEntry(i) ==
    (IF HasKeyValidator THEN <<[which |-> "key", item |-> View[i][1]]>> ELSE <<>>)
    \o (IF HasValueValidator THEN <<[which |-> "value", item |-> View[i][2]]>> ELSE <<>>)
RECURSIVE CallsOfEntries(_, _)
CallsOfEntries(i, last) ==
    IF i > last THEN <<>> ELSE CallsOfEntry(i) \o CallsOfEntries(i + 1, last)

KeyFatal(i) == KeyOutcome(i).tag = "InternalErr"
ValueFatal(i) == ValueOutcome(i).tag = "InternalErr"
AssemblyFatal(i) ==
    /\ KeyOutcome(i).tag = "Ok" /\ ValueOutcome(i).tag = "Ok"
    /\ ~IsHashable(KeyOutcome(i).value)
\* entries whose processing meets an internal error if it is reached
FatalEntries ==
    {i \in 1..Len(View) : KeyFatal(i) \/ ValueFatal(i) \/ AssemblyFatal(i)}

\* C6: an internal error of a key validator, a value validator or of output
\* assembly ends the call with that internal error at once: no child is
\* invoked after it (not the value validator of the entry after its key
\* raised, no validator of a later entry), and the result is the internal
\* error alone, not the line errors collected so far.
C6_InternalErrorAborts ==
    (HasView /\ SizeOk) =>
      IF FatalEntries = {} THEN call.result.tag # "InternalErr"
      ELSE LET f == CHOOSE i \in FatalEntries : \A j \in FatalEntries : i <= j
           IN  /\ call.result = InternalErr
               /\ call.calls =
                    CallsOfEntries(1, f - 1)
                    \o (IF HasKeyValidator
                        THEN <<[which |-> "key", item |-> View[f][1]]>> ELSE <<>>)
                    \o (IF HasValueValidator /\ ~KeyFatal(f)
                        THEN <<[which |-> "value", item |-> View[f][2]]>> ELSE <<>>)

\* the key of the 2nd entry raises after the 1st entry gave line errors; a
\* value validator is present and an entry follows
C6_Witness ==
    /\ HasView /\ SizeOk /\ HasValueValidator
    /\ Len(View) >= 3
    /\ KeyOutcome(1).tag = "LineErrors" /\ KeyOutcome(1).errors # <<>>
    /\ KeyFatal(2)
    /\ call.result = InternalErr
    /\ Len(call.calls) = 3

\* the inputs each extraction takes for a mapping
StrictAccepts(input) == input.shape = "dict"
LaxAccepts(input, duck) ==
    input.shape \in {"dict", "items"} \/ (input.shape = "object" /\ duck)

\* C7: validate extracts strictly when strict is set, whatever
\* try_instance_as_dict is, and laxly under try_instance_as_dict otherwise;
\* validate_strict extracts strictly whatever strict is and otherwise does
\* what validate of a strict validator does; a failed extraction ends the
\* call before any size check or child invocation.
C7_ExtractionMode ==
    Finished =>
      LET strictly == call.op = "validate_strict" \/ self.strict
      IN  /\ IsSome(call.view) <=>
                IF strictly THEN StrictAccepts(call.input)
                ELSE LaxAccepts(call.input, self.try_instance_as_dict)
          /\ ~IsSome(call.view) =>
                /\ call.result = LineErrors(<<LineError("DictType", <<>>, <<>>)>>)
                /\ call.calls = <<>>
          /\ (strictly /\ IsSome(call.view)) => View = call.input.items
          /\ call.op = "validate_strict" =>
                LET r == validate([self EXCEPT !.strict = TRUE], call.input)
                IN  /\ call.result = r.result
                    /\ call.calls = r.calls
                    /\ call.output = r.output

\* validate_strict of a lax validator rejects the items of a mapping that
\* validate accepts
C7_Witness ==
    /\ call.op = "validate_strict" /\ ~self.strict
    /\ call.input.shape = "items" /\ call.input.items # <<>>
    /\ call.result.tag = "LineErrors"
    /\ call.result.errors[1].kind = "DictType"
    /\ validate(self, call.input).result.tag = "Ok"

\* the result the call gives on the validator as built and bound
ResultAlone ==
    IF call.op = "validate" THEN validate(built, call.input).result
    ELSE validate_strict(built, call.input).result

C9_SetRefForwards ==
    [][(call.op = "idle" /\ call'.op = "set_ref") =>
         LET has_key == IsSome(self.key_validator)
             has_value == IsSome(self.value_validator)
             fwd == call'.forwarded
             binding == <<call'.name, call'.target>>
             key_failed == has_key /\ ~fwd[1].ok
         IN  /\ self'.strict = self.strict
             /\ self'.min_items = self.min_items
             /\ self'.max_items = self.max_items
             /\ self'.try_instance_as_dict = self.try_instance_as_dict
             /\ IsSome(self'.key_validator) = has_key
             /\ IsSome(self'.value_validator) = has_value
             /\ has_key => Unwrap(self'.key_validator).kind = Unwrap(self.key_validator).kind
             /\ has_value =>
                  Unwrap(self'.value_validator).kind = Unwrap(self.value_validator).kind
             /\ (~has_key /\ ~has_value) =>
                  (self' = self /\ fwd = <<>> /\ call'.result.tag = "Ok")
             /\ [n \in 1..Len(fwd) |-> fwd[n].which] =
                  (IF has_key THEN <<"key">> ELSE <<>>)
                  \o (IF has_value /\ ~key_failed THEN <<"value">> ELSE <<>>)
             /\ \A n \in 1..Len(fwd) :
                  fwd[n].name = call'.name /\ fwd[n].target = call'.target
             /\ call'.result.tag = "Ok" <=> \A n \in 1..Len(fwd) : fwd[n].ok
             /\ call'.result.tag = "Ok" =>
                  /\ has_key => binding \in Unwrap(self'.key_validator).refs
                  /\ has_value => binding \in Unwrap(self'.value_validator).refs
      ]_vars

\* a set_ref that succeeded on a validator with both children
C9_Witness ==
    /\ call.op = "set_ref" /\ call.result.tag = "Ok"
    /\ HasKeyValidator /\ HasValueValidator
    /\ Len(call.forwarded) = 2
    /\ <<call.name, call.target>> \in Unwrap(self.key_validator).refs
    /\ <<call.name, call.target>> \in Unwrap(self.value_validator).refs

\* C10: a call that returns success has validated every key and every value
\* of the view successfully; a key or value failure, even one without
\* records, never leaves the call a success.
C10_NoEntryDropped ==
    (HasView /\ call.result.tag = "Ok") =>
      \A i \in 1..Len(View) : KeyOutcome(i).tag = "Ok" /\ ValueOutcome(i).tag = "Ok"

====
